---- MODULE Spec2Model ----
(***************************************************************************)
(* Model of the Overleaf MCP tools (src/src/tools.py): the sync evaluator  *)
(* check_sync_status, the edit gate wrapped around write_text,             *)
(* edit_latex_selection and edit_latex_file, the publish sequence          *)
(* push_to_overleaf, pull_overleaf_project and the text range operations.  *)
(*                                                                         *)
(* A text is a sequence of one-character strings.  A path is a sequence of *)
(* path components.  Every external call a tool makes (a git subprocess or *)
(* a file read/write/mkdir) takes the next position in the call's sequence *)
(* of external calls; the environment decides per position whether the     *)
(* call runs normally ("ok"), exits non-zero / raises OSError ("fail") or  *)
(* exceeds its timeout ("timeout").                                        *)
(***************************************************************************)
EXTENDS Integers, Sequences, FiniteSets, TLC

\* ---------------------------------------------------------------- bounds
MaxCommits == 2     \* cap on the commits the local head is ahead by
MaxRemote  == 1     \* cap on the commits made in the cloud editor
MaxFaults  == 1     \* environment faults injected into one tool call
MaxTextLen == 3     \* longest file content
MaxNewLen  == 2     \* longest new_content and longest pattern
MaxUrlTail == 4     \* longest path part of a URL, in tokens

\* ------------------------------------------------------------ text model
NL == "\n"

Absent == <<"ABSENT">>          \* Path.exists() is False
None   == <<>>                  \* Python None / "" (falsy)  for repo roots

RECURSIVE IndexOf(_, _, _)
\* first position >= i of character ch in s, 0 when there is none
IndexOf(s, ch, i) ==
  IF i > Len(s) THEN 0
  ELSE IF s[i] = ch THEN i ELSE IndexOf(s, ch, i + 1)

RECURSIVE SplitLines(_)
\* str.splitlines(): lines without terminators, no final empty line for a
\* trailing newline, [] for the empty string
SplitLines(s) ==
  IF s = <<>> THEN <<>>
  ELSE LET i == IndexOf(s, NL, 1)
       IN IF i = 0 THEN <<s>>
          ELSE <<SubSeq(s, 1, i - 1)>> \o SplitLines(SubSeq(s, i + 1, Len(s)))

RECURSIVE JoinLines(_)
\* "\n".join(lines)
JoinLines(ls) ==
  IF ls = <<>> THEN <<>>
  ELSE IF Len(ls) = 1 THEN ls[1]
  ELSE ls[1] \o <<NL>> \o JoinLines(Tail(ls))

\* lines[a:b] for 0 <= a, with Python's clamping of b
Slice(ls, a, b) ==
  LET hi == IF b > Len(ls) THEN Len(ls) ELSE b
  IN IF a >= hi THEN <<>> ELSE SubSeq(ls, a + 1, hi)

\* ------------------------------------------------------------ file system
Proj == <<"proj">>
Sec  == <<"proj", "sec">>
Tmp  == <<"tmp">>
F1 == <<"proj", "main.tex">>        \* tracked file of the working tree
F2 == <<"proj", "sec", "new.tex">>  \* file of the tree that does not exist yet
F3 == <<"tmp", "notes.tex">>        \* file outside every working tree
TreePaths == {F1, F2}
AllPaths  == {F1, F2, F3}

Parent(p) == IF p = <<>> THEN <<>> ELSE SubSeq(p, 1, Len(p) - 1)

VARIABLES
  files,       \* working files: path -> text or Absent
  dirs,        \* existing directories
  gitDirs,     \* directories that contain the marker directory .git
  head,        \* content of the tree's files at the local HEAD commit
  remote,      \* content of the tree's files at the remote branch tip
  localOnly,   \* commits reachable from HEAD, not from the remote branch
  remoteOnly,  \* commits on the remote branch tip, not reachable from HEAD
  known,       \* commits on the remote-tracking ref, not reachable from HEAD
  branch,      \* name of the remote's default branch
  last         \* the last tool call: operation, arguments, result, trace

vars == <<files, dirs, gitDirs, head, remote, localOnly, remoteOnly, known,
          branch, last>>

\* the world a tool call runs against, as one value
World ==
  [files |-> files, dirs |-> dirs, gitDirs |-> gitDirs, head |-> head,
   remote |-> remote, localOnly |-> localOnly, remoteOnly |-> remoteOnly,
   known |-> known, branch |-> branch]

\* ------------------------------------------------------------ environment
FaultKinds == {"fail", "timeout"}

\* outcome of the k-th external call under plan env
Out(env, k) ==
  IF <<k, "timeout">> \in env THEN "timeout"
  ELSE IF <<k, "fail">> \in env THEN "fail"
  ELSE "ok"

\* a call context: the world, the next external-call position, the trace
Ctx(w, k, log) == [w |-> w, k |-> k, log |-> log]
Step(c, ev) == [c EXCEPT !.k = c.k + 1, !.log = Append(c.log, ev)]

\* `git status --porcelain` prints something
Dirty(w) == \E p \in TreePaths : w.files[p] # w.head[p]

\* ------------------------------------------------- check_sync_status
\* branch-name candidates of the two count queries and of their retries
BehindFirst == "master"
AheadFirst  == "master"
BehindRetry == "master"
AheadRetry  == "master"

Note(c, ev) == [c EXCEPT !.log = Append(c.log, ev)]

\* SyncStatusResult with the defaults of the class
SyncFail(msg) ==
  [success |-> FALSE, message |-> msg, is_synced |-> FALSE,
   local_ahead |-> FALSE, remote_ahead |-> FALSE, has_uncommitted |-> FALSE,
   warnings |-> <<>>, suggestions |-> <<>>,
   local_commits_ahead |-> 0, remote_commits_ahead |-> 0]

WarnUncommitted == [kind |-> "uncommitted", n |-> 0]
WarnRemote(n)   == [kind |-> "remote_ahead", n |-> n]
WarnLocal(n)    == [kind |-> "local_ahead", n |-> n]
SuggestCommit == "commit"
SuggestPull   == "pull_overleaf_project"
SuggestPush   == "push_to_overleaf"

\* `git rev-list --count A..B` against origin/<cand>: exit code and count.
\* The ref origin/<cand> exists only for the remote's default branch.
RevList(w, o, cand, dir) ==
  IF o = "ok" /\ cand = w.branch
  THEN [rc |-> 0, n |-> IF dir = "behind" THEN w.known ELSE w.localOnly]
  ELSE [rc |-> 128, n |-> 0]

CheckAbort(c, msg) ==
  [c |-> Note(c, <<"check", "fail">>), res |-> SyncFail(msg)]

\* Verdict with is_synced computed without the uncommitted signal
Verdict_IgnoresUncommitted(hasU, behind, ahead) ==
  LET remote_commits_ahead == IF behind.rc = 0 THEN behind.n ELSE 0
      local_commits_ahead  == IF ahead.rc = 0 THEN ahead.n ELSE 0
      remote_ahead == remote_commits_ahead > 0
      local_ahead  == local_commits_ahead > 0
      w1 == IF hasU THEN <<WarnUncommitted>> ELSE <<>>
      s1 == IF hasU THEN <<SuggestCommit>> ELSE <<>>
      w2 == IF remote_ahead THEN Append(w1, WarnRemote(remote_commits_ahead))
            ELSE w1
      s2 == IF remote_ahead THEN Append(s1, SuggestPull) ELSE s1
      w3 == IF local_ahead THEN Append(w2, WarnLocal(local_commits_ahead))
            ELSE w2
      s3 == IF local_ahead THEN Append(s2, SuggestPush) ELSE s2
      is_synced == ~remote_ahead /\ ~local_ahead
  IN [success |-> TRUE,
      message |-> IF is_synced THEN "synchronized" ELSE "unsynchronized",
      is_synced |-> is_synced, local_ahead |-> local_ahead,
      remote_ahead |-> remote_ahead, has_uncommitted |-> hasU,
      warnings |-> w3, suggestions |-> s3,
      local_commits_ahead |-> local_commits_ahead,
      remote_commits_ahead |-> remote_commits_ahead]

\* Verdict with the uncommitted warning appended last and without its
\* suggestion when another warning precedes it
Verdict_UncommittedLast(hasU, behind, ahead) ==
  LET remote_commits_ahead == IF behind.rc = 0 THEN behind.n ELSE 0
      local_commits_ahead  == IF ahead.rc = 0 THEN ahead.n ELSE 0
      remote_ahead == remote_commits_ahead > 0
      local_ahead  == local_commits_ahead > 0
      w1 == IF remote_ahead THEN <<WarnRemote(remote_commits_ahead)>> ELSE <<>>
      s1 == IF remote_ahead THEN <<SuggestPull>> ELSE <<>>
      w2 == IF local_ahead THEN Append(w1, WarnLocal(local_commits_ahead))
            ELSE w1
      s2 == IF local_ahead THEN Append(s1, SuggestPush) ELSE s1
      w3 == IF hasU THEN Append(w2, WarnUncommitted) ELSE w2
      s3 == IF hasU /\ s2 = <<>> THEN Append(s2, SuggestCommit) ELSE s2
      is_synced == ~remote_ahead /\ ~local_ahead /\ ~hasU
  IN [success |-> TRUE,
      message |-> IF is_synced THEN "synchronized" ELSE "unsynchronized",
      is_synced |-> is_synced, local_ahead |-> local_ahead,
      remote_ahead |-> remote_ahead, has_uncommitted |-> hasU,
      warnings |-> w3, suggestions |-> s3,
      local_commits_ahead |-> local_commits_ahead,
      remote_commits_ahead |-> remote_commits_ahead]

\* the verdict computed from the three signals (tools.py 870-916)
Verdict(hasU, behind, ahead) ==
  LET remote_commits_ahead == IF behind.rc = 0 THEN behind.n ELSE 0
      local_commits_ahead  == IF ahead.rc = 0 THEN ahead.n ELSE 0
      remote_ahead == remote_commits_ahead > 0
      local_ahead  == local_commits_ahead > 0
      w1 == IF hasU THEN <<WarnUncommitted>> ELSE <<>>
      s1 == IF hasU THEN <<SuggestCommit>> ELSE <<>>
      w2 == IF remote_ahead THEN Append(w1, WarnRemote(remote_commits_ahead))
            ELSE w1
      s2 == IF remote_ahead THEN Append(s1, SuggestPull) ELSE s1
      w3 == IF local_ahead THEN Append(w2, WarnLocal(local_commits_ahead))
            ELSE w2
      s3 == IF local_ahead THEN Append(s2, SuggestPush) ELSE s2
      is_synced == ~remote_ahead /\ ~local_ahead /\ ~hasU
  IN [success |-> TRUE,
      message |-> IF is_synced THEN "synchronized" ELSE "unsynchronized",
      is_synced |-> is_synced, local_ahead |-> local_ahead,
      remote_ahead |-> remote_ahead, has_uncommitted |-> hasU,
      warnings |-> w3, suggestions |-> s3,
      local_commits_ahead |-> local_commits_ahead,
      remote_commits_ahead |-> remote_commits_ahead]

CheckDone(c, res) ==
  [c |-> Note(c, <<"check", IF res.warnings # <<>> THEN "warn" ELSE "clean">>),
   res |-> res]

\* the retry of the ahead query ran (tools.py 862-868), then the verdict
AfterAheadRetry(c, o, hasU, behind, ahead) ==
  IF o = "timeout" THEN CheckAbort(c, "timeout")
  ELSE CheckDone(c, Verdict(hasU, behind, ahead))

\* tools.py 862-916: retry the ahead query when it exited non-zero
AheadRetryStep(c, env, hasU, behind, ahead1) ==
  IF ahead1.rc # 0
  THEN AfterAheadRetry(
         Step(c, <<"rev-list", "ahead", AheadRetry, Out(env, c.k)>>),
         Out(env, c.k), hasU, behind,
         RevList(c.w, Out(env, c.k), AheadRetry, "ahead"))
  ELSE CheckDone(c, Verdict(hasU, behind, ahead1))

\* the retry of the behind query ran (tools.py 855-861)
AfterBehindRetry(c, env, o, hasU, behind, ahead1) ==
  IF o = "timeout" THEN CheckAbort(c, "timeout")
  ELSE AheadRetryStep(c, env, hasU, behind, ahead1)

\* the first ahead query ran (tools.py 847-861): retry the behind query when
\* it exited non-zero
AfterAhead(c, env, o, hasU, behind1, ahead1) ==
  IF o = "timeout" THEN CheckAbort(c, "timeout")
  ELSE IF behind1.rc # 0
    THEN AfterBehindRetry(
           Step(c, <<"rev-list", "behind", BehindRetry, Out(env, c.k)>>),
           env, Out(env, c.k), hasU,
           RevList(c.w, Out(env, c.k), BehindRetry, "behind"), ahead1)
  ELSE AheadRetryStep(c, env, hasU, behind1, ahead1)

\* the first behind query ran (tools.py 839-852)
AfterBehind(c, env, o, hasU, behind1) ==
  IF o = "timeout" THEN CheckAbort(c, "timeout")
  ELSE AfterAhead(Step(c, <<"rev-list", "ahead", AheadFirst, Out(env, c.k)>>),
                  env, Out(env, c.k), hasU, behind1,
                  RevList(c.w, Out(env, c.k), AheadFirst, "ahead"))

\* `git fetch origin` that exits 0 moves the remote-tracking ref
Fetched(c, o) ==
  IF o = "ok" THEN [c EXCEPT !.w.known = c.w.remoteOnly] ELSE c

\* the fetch ran (tools.py 831-844); its exit code is not looked at
AfterFetch(c, env, o, hasU) ==
  IF o = "timeout" THEN CheckAbort(c, "timeout")
  ELSE AfterBehind(
         Step(c, <<"rev-list", "behind", BehindFirst, Out(env, c.k)>>),
         env, Out(env, c.k), hasU,
         RevList(c.w, Out(env, c.k), BehindFirst, "behind"))

\* the status query ran (tools.py 818-836)
AfterStatus(c, env, o, hasU) ==
  IF o = "timeout" THEN CheckAbort(c, "timeout")
  ELSE AfterFetch(Fetched(Step(c, <<"fetch", Out(env, c.k)>>), Out(env, c.k)),
                  env, Out(env, c.k), hasU)

\* CheckSyncStatus that takes the output of the status query as empty
CheckSyncStatus_StatusIgnored(c0, env, repo) ==
  IF repo \notin c0.w.gitDirs THEN CheckAbort(c0, "not_git")
  ELSE AfterStatus(Step(c0, <<"status", Out(env, c0.k)>>), env,
                   Out(env, c0.k), FALSE)

\* check_sync_status(repo): the context after the call and its result
CheckSyncStatus(c0, env, repo) ==
  IF repo \notin c0.w.gitDirs THEN CheckAbort(c0, "not_git")
  ELSE AfterStatus(Step(c0, <<"status", Out(env, c0.k)>>), env,
                   Out(env, c0.k), Out(env, c0.k) = "ok" /\ Dirty(c0.w))

\* ------------------------------------------------- find_git_repo_root
RECURSIVE WalkUp(_, _)
\* the loop `while current != current.parent` (the root itself is never tested)
WalkUp(w, current) ==
  IF current = Parent(current) THEN None
  ELSE IF current \in w.gitDirs THEN current
  ELSE WalkUp(w, Parent(current))

find_git_repo_root(w, file_path) ==
  WalkUp(w, IF file_path \in w.dirs THEN file_path ELSE Parent(file_path))

\* ------------------------------------------------- push_to_overleaf
PushFirst == "main"
PushRetry == "master"

\* ToolResult: message is the sequence of the message's parts
ToolResult(ok, msg) == [success |-> ok, message |-> msg]

Range(f) == {f[i] : i \in DOMAIN f}

\* "nothing to commit" in message.lower()
MentionsNothingToCommit(msg) == "nothing to commit" \in Range(msg)

\* `git commit` with everything staged: a new commit when the tree differs
\* from HEAD
CommitWorld(w) ==
  [w EXCEPT !.head = [p \in TreePaths |-> w.files[p]],
            !.localOnly = w.localOnly + 1]

\* `git push origin <cand>` exits 0: the branch exists and the remote tip is
\* an ancestor of HEAD
PushAccepted(w, o, cand) == o = "ok" /\ cand = w.branch /\ w.remoteOnly = 0

PushWorld(w) == [w EXCEPT !.remote = w.head, !.localOnly = 0]

PushDone(c, ok, msg) == [c |-> c, res |-> ToolResult(ok, msg)]

\* the push to the second candidate ran (tools.py 542-560)
AfterPushRetry(c, o) ==
  IF o = "timeout" THEN PushDone(c, FALSE, <<"timed_out">>)
  ELSE IF PushAccepted(c.w, o, PushRetry)
    THEN PushDone([c EXCEPT !.w = PushWorld(c.w)], TRUE, <<"pushed_master">>)
  ELSE PushDone(c, FALSE, <<"failed_to_push">>)

\* the push to the first candidate ran (tools.py 527-547)
AfterPushFirst(c, env, o) ==
  IF o = "timeout" THEN PushDone(c, FALSE, <<"timed_out">>)
  ELSE IF PushAccepted(c.w, o, PushFirst)
    THEN PushDone([c EXCEPT !.w = PushWorld(c.w)], TRUE, <<"pushed">>)
  ELSE AfterPushRetry(Step(c, <<"push", PushRetry, Out(env, c.k)>>),
                      Out(env, c.k))

\* `git commit -m` that runs makes a commit when something is staged
Committed(c, o) ==
  IF o = "ok" /\ Dirty(c.w) THEN [c EXCEPT !.w = CommitWorld(c.w)] ELSE c

\* AfterCommit that goes on to the push although nothing was committed
AfterCommit_PushesAnyway(c, env, o, nothing) ==
  IF o = "timeout" THEN PushDone(c, FALSE, <<"timed_out">>)
  ELSE AfterPushFirst(Step(c, <<"push", PushFirst, Out(env, c.k)>>), env,
                      Out(env, c.k))

\* the commit ran (tools.py 511-532); nothing: its stdout says
\* "nothing to commit"; its exit code is not looked at
AfterCommit(c, env, o, nothing) ==
  IF o = "timeout" THEN PushDone(c, FALSE, <<"timed_out">>)
  ELSE IF nothing THEN PushDone(c, TRUE, <<"no_changes">>)
  ELSE AfterPushFirst(Step(c, <<"push", PushFirst, Out(env, c.k)>>), env,
                      Out(env, c.k))

\* `git add -A` ran (tools.py 497-516)
AfterAdd(c, env, o) ==
  IF o = "timeout" THEN PushDone(c, FALSE, <<"timed_out">>)
  ELSE IF o = "fail" THEN PushDone(c, FALSE, <<"failed_to_stage">>)
  ELSE AfterCommit(
         Committed(Step(c, <<"commit", Out(env, c.k)>>), Out(env, c.k)),
         env, Out(env, c.k), Out(env, c.k) = "ok" /\ ~Dirty(c.w))

\* push_to_overleaf(repo, message): the context after the call and its result
PushToOverleaf(c0, env, repo) ==
  IF repo \notin c0.w.gitDirs THEN PushDone(c0, FALSE, <<"not_git">>)
  ELSE AfterAdd(Step(c0, <<"add", Out(env, c0.k)>>), env, Out(env, c0.k))

\* ------------------------------------------------- pattern matching
NoPattern == <<"NONE">>     \* pattern=None
NoLine    == -99            \* start_line=None / end_line=None

\* pat matches content at position i.  With use_regex a "." of the pattern
\* matches any character (re.DOTALL); every other character is a literal.
MatchAt(content, pat, i, regex) ==
  /\ i >= 1
  /\ i + Len(pat) - 1 <= Len(content)
  /\ \A j \in 1..Len(pat) :
        \/ regex /\ pat[j] = "."
        \/ content[i + j - 1] = pat[j]

RECURSIVE FindFrom(_, _, _, _)
\* start of the leftmost match at or after i, 0 when there is none
\* (str.find / re.search)
FindFrom(content, pat, i, regex) ==
  IF i + Len(pat) - 1 > Len(content) THEN 0
  ELSE IF MatchAt(content, pat, i, regex) THEN i
  ELSE FindFrom(content, pat, i + 1, regex)

\* content.replace(pattern, new_content, 1)
ReplaceFirst(content, pat, new) ==
  LET i == FindFrom(content, pat, 1, FALSE)
  IN IF i = 0 THEN content
     ELSE SubSeq(content, 1, i - 1) \o new
          \o SubSeq(content, i + Len(pat), Len(content))

RECURSIVE ReSub(_, _, _)
\* re.sub(pattern, new_content, content) with the default count=0: every
\* non-overlapping match, left to right (non-empty patterns, a replacement
\* without backslashes)
ReSub(content, pat, new) ==
  LET i == FindFrom(content, pat, 1, TRUE)
  IN IF i = 0 \/ pat = <<>> THEN content
     ELSE SubSeq(content, 1, i - 1) \o new
          \o ReSub(SubSeq(content, i + Len(pat), Len(content)), pat, new)

\* content[:pos].count('\n') + 1 for the 0-based offset pos
LineOfOffset(content, pos) ==
  Cardinality({i \in 1..pos : content[i] = NL}) + 1

\* ------------------------------------------------- read_text
ReadTextResult(ok, msg, text, s, e) ==
  [success |-> ok, message |-> msg, text |-> text,
   start_line |-> s, end_line |-> e]

ReadFail(c, msg) ==
  [c |-> c, res |-> ReadTextResult(FALSE, msg, <<>>, NoLine, NoLine)]

ReadOk(c, msg, text, s, e) ==
  [c |-> c, res |-> ReadTextResult(TRUE, msg, text, s, e)]

\* the pattern branch (tools.py 118-160): i is the start of the first match
ReadMatch(c, content, pattern, i) ==
  IF i # 0
  THEN ReadOk(c, <<"found">>, SubSeq(content, i, i + Len(pattern) - 1),
              LineOfOffset(content, i - 1),
              LineOfOffset(content, i - 1 + Len(pattern)))
  ELSE ReadFail(c, <<"pattern_not_found">>)

\* the line-range branch (tools.py 162-183)
ReadLines(c, lines, s, e) ==
  IF s < 1 \/ e > Len(lines) \/ s > e
  THEN ReadFail(c, <<"invalid_line_range">>)
  ELSE ReadOk(c, <<"read_lines">>, JoinLines(Slice(lines, s - 1, e)), s, e)

\* the file was read (tools.py 114-195); o: the outcome of the read
ReadContent(c, o, content, pattern, s, e, regex) ==
  IF o # "ok" THEN ReadFail(c, <<"error_reading">>)
  ELSE IF pattern # NoPattern
    THEN ReadMatch(c, content, pattern, FindFrom(content, pattern, 1, regex))
  ELSE IF s # NoLine /\ e # NoLine
    THEN ReadLines(c, SplitLines(content), s, e)
  ELSE ReadFail(c, <<"missing_arguments">>)

\* read_text(file_path, pattern, start_line, end_line, use_regex)
ReadText(c0, env, path, pattern, s, e, regex) ==
  IF c0.w.files[path] = Absent THEN ReadFail(c0, <<"file_not_found">>)
  ELSE ReadContent(
         Step(c0, <<"read", IF Out(env, c0.k) = "ok" THEN "ok" ELSE "raised">>),
         Out(env, c0.k), c0.w.files[path], pattern, s, e, regex)

\* ------------------------------------------------- the edit gate
\* GateVerdict that also refuses when the sync check itself failed
GateVerdict_FailClosed(chk) ==
  [c |-> chk.c, blocked |-> ~chk.res.success \/ chk.res.warnings # <<>>]

\* refuse only on a successful verdict with warnings (tools.py 221-243)
GateVerdict(chk) ==
  [c |-> chk.c, blocked |-> chk.res.success /\ chk.res.warnings # <<>>]

\* GateAt without the `if repo_root:` guard
GateAt_Unguarded(c0, env, repo_root) ==
  GateVerdict(CheckSyncStatus(c0, env, repo_root))

\* consult check_sync_status when there is an enclosing working tree
\* (tools.py 218-220)
GateAt(c0, env, repo_root) ==
  IF repo_root # None THEN GateVerdict(CheckSyncStatus(c0, env, repo_root))
  ELSE [c |-> c0, blocked |-> FALSE]

\* tools.py 217-243 (and its copies 401-427, 590-616)
Gate(c0, env, path) == GateAt(c0, env, find_git_repo_root(c0.w, path))

SyncBlocked(c) == [c |-> c, res |-> ToolResult(FALSE, <<"sync_blocked">>)]

ToolFail(c, msg) == [c |-> c, res |-> ToolResult(FALSE, msg)]

\* the composed result of write_text after its publish step
WriteReport(push_result, okmsg) ==
  [c |-> push_result.c,
   res |-> ToolResult(TRUE,
             IF ~push_result.res.success
                /\ ~MentionsNothingToCommit(push_result.res.message)
             THEN okmsg \o <<"but_push_failed">> \o push_result.res.message
             ELSE okmsg)]

PublishAt(c, env, repo_root, okmsg) ==
  IF repo_root # None
  THEN WriteReport(PushToOverleaf(c, env, repo_root), okmsg)
  ELSE [c |-> c, res |-> ToolResult(TRUE, okmsg)]

\* the publish step after a write and the composed result of write_text
\* (tools.py 263-288, 300-325, 345-371)
PublishAfterWrite(c, env, path, okmsg) ==
  PublishAt(c, env, find_git_repo_root(c.w, path), okmsg)

\* Written that publishes although the write raised
Written_AfterError(c, env, o, path, text, okmsg, errmsg) ==
  IF o # "ok"
  THEN ToolFail(PublishAfterWrite(c, env, path, okmsg).c, errmsg)
  ELSE PublishAfterWrite([c EXCEPT !.w.files[path] = text], env, path, okmsg)

\* file.write_text(text) ran with outcome o: an exception goes to the
\* handler, a completed write is followed by the publish step
Written(c, env, o, path, text, okmsg, errmsg) ==
  IF o # "ok" THEN ToolFail(c, errmsg)
  ELSE PublishAfterWrite([c EXCEPT !.w.files[path] = text], env, path, okmsg)

\* file.write_text(text) followed by the publish step
WriteAndPublish(c, env, path, text, okmsg, errmsg) ==
  Written(Step(c, IF Out(env, c.k) = "ok" THEN <<"write", "ok">> \o text
                  ELSE <<"write", "raised">>),
          env, Out(env, c.k), path, text, okmsg, errmsg)

\* new_lines of the line-range replacement (tools.py 342)
ReplaceLines(lines, s, e, new) ==
  Slice(lines, 0, s - 1) \o SplitLines(new) \o Slice(lines, e, Len(lines))

\* WriteLines without the upper bound of the range check
WriteLines_NoUpperBound(c, env, path, lines, s, e, new) ==
  IF s < 1 \/ s > e
  THEN ToolFail(c, <<"invalid_line_range">>)
  ELSE WriteAndPublish(c, env, path, JoinLines(ReplaceLines(lines, s, e, new)),
                       <<"replaced_lines">>, <<"error_writing">>)

\* the line-range branch of write_text (tools.py 328-371)
WriteLines(c, env, path, lines, s, e, new) ==
  IF s < 1 \/ e > Len(lines) \/ s > e
  THEN ToolFail(c, <<"invalid_line_range">>)
  ELSE WriteAndPublish(c, env, path, JoinLines(ReplaceLines(lines, s, e, new)),
                       <<"replaced_lines">>, <<"error_writing">>)

\* the file was read (tools.py 249-381); o: the outcome of the read
WriteContent(c, env, o, path, content, new, pattern, s, e, regex) ==
  IF o # "ok" THEN ToolFail(c, <<"error_writing">>)
  ELSE IF pattern # NoPattern THEN
    IF regex THEN
      IF FindFrom(content, pattern, 1, TRUE) # 0
      THEN WriteAndPublish(c, env, path, ReSub(content, pattern, new),
                           <<"replaced_regex">>, <<"error_writing">>)
      ELSE ToolFail(c, <<"pattern_not_found">>)
    ELSE
      IF FindFrom(content, pattern, 1, FALSE) # 0
      THEN WriteAndPublish(c, env, path, ReplaceFirst(content, pattern, new),
                           <<"replaced_text">>, <<"error_writing">>)
      ELSE ToolFail(c, <<"text_not_found">>)
  ELSE IF s # NoLine /\ e # NoLine
    THEN WriteLines(c, env, path, SplitLines(content), s, e, new)
  ELSE ToolFail(c, <<"missing_arguments">>)

\* write_text after the gate (tools.py 245-381)
WriteBody(c, env, path, new, pattern, s, e, regex) ==
  IF c.w.files[path] = Absent THEN ToolFail(c, <<"file_not_found">>)
  ELSE WriteContent(
         Step(c, <<"read", IF Out(env, c.k) = "ok" THEN "ok" ELSE "raised">>),
         env, Out(env, c.k), path, c.w.files[path], new, pattern, s, e, regex)

\* the gate of write_text has answered
WriteGated(g, env, path, new, pattern, s, e, regex) ==
  IF g.blocked THEN SyncBlocked(g.c)
  ELSE WriteBody(Note(g.c, <<"mutate">>), env, path, new, pattern, s, e, regex)

\* write_text(file_path, new_content, pattern, start_line, end_line, use_regex)
WriteText(c0, env, path, new, pattern, s, e, regex) ==
  WriteGated(Gate(c0, env, path), env, path, new, pattern, s, e, regex)

\* the composed result of the edit tools after their own publish step
EditReport(push_result, okmsg) ==
  [c |-> push_result.c,
   res |-> ToolResult(TRUE,
             IF push_result.res.success
                \/ MentionsNothingToCommit(push_result.res.message)
             THEN okmsg
             ELSE okmsg \o <<"but_push_failed">> \o push_result.res.message)]

ReportAt(c, env, repo_root, okmsg) ==
  IF repo_root # None
  THEN EditReport(PushToOverleaf(c, env, repo_root), okmsg)
  ELSE [c |-> c, res |-> ToolResult(TRUE, okmsg)]

\* the second publish and the composed result (tools.py 447-473, 622-645)
PublishAndReport(c, env, path, okmsg) ==
  ReportAt(c, env, find_git_repo_root(c.w, path), okmsg)

\* the nested write_text has returned (tools.py 439-473)
SelectionWritten(write_result, env, path) ==
  IF ~write_result.res.success
  THEN ToolFail(write_result.c,
                <<"failed_to_write">> \o write_result.res.message)
  ELSE PublishAndReport(write_result.c, env, path, <<"edited_lines">>)

\* the nested read_text has returned (tools.py 430-446)
SelectionRead(read_result, env, path, s, e, new) ==
  IF ~read_result.res.success
  THEN ToolFail(read_result.c, <<"failed_to_read">> \o read_result.res.message)
  ELSE SelectionWritten(
         WriteText(read_result.c, env, path, new, NoPattern, s, e, FALSE),
         env, path)

\* the gate of edit_latex_selection has answered
SelectionGated(g, env, path, s, e, new) ==
  IF g.blocked THEN SyncBlocked(g.c)
  ELSE SelectionRead(
         ReadText(Note(g.c, <<"mutate">>), env, path, NoPattern, s, e, FALSE),
         env, path, s, e, new)

\* edit_latex_selection(file_path, start_line, end_line, new_content)
EditLatexSelection(c0, env, path, s, e, new) ==
  SelectionGated(Gate(c0, env, path), env, path, s, e, new)

RECURSIVE Ancestors(_)
\* the directories mkdir(parents=True) makes sure exist
Ancestors(d) == IF d = <<>> THEN {} ELSE {d} \cup Ancestors(Parent(d))

\* file.write_text(content) ran with outcome o (tools.py 620-650)
FileWritten(c, env, o, path, content) ==
  IF o # "ok" THEN ToolFail(c, <<"error_editing">>)
  ELSE PublishAndReport([c EXCEPT !.w.files[path] = content], env, path,
                        <<"edited_file">>)

\* the parent directories were made with outcome o (tools.py 618-620)
DirsMade(c, env, o, path, content, need) ==
  IF o # "ok" THEN ToolFail(c, <<"error_editing">>)
  ELSE FileWritten(
         Step([c EXCEPT !.w.dirs = c.w.dirs \cup need],
              IF Out(env, c.k) = "ok" THEN <<"write", "ok">> \o content
              ELSE <<"write", "raised">>),
         env, Out(env, c.k), path, content)

\* file.parent.mkdir(parents=True, exist_ok=True): need are the directories
\* it has to create
MakeDirs(c, env, path, content, need) ==
  DirsMade(Step(c, <<"mkdir", IF Out(env, c.k) # "ok" THEN "raised"
                              ELSE IF need = {} THEN "exists"
                              ELSE "created">>),
           env, Out(env, c.k), path, content, need)

\* edit_latex_file after the gate (tools.py 618-650)
EditFileBody(c, env, path, content) ==
  MakeDirs(c, env, path, content, Ancestors(Parent(path)) \ c.w.dirs)

\* the gate of edit_latex_file has answered
FileGated(g, env, path, content) ==
  IF g.blocked THEN SyncBlocked(g.c)
  ELSE EditFileBody(Note(g.c, <<"mutate">>), env, path, content)

\* edit_latex_file(file_path, content): the gate runs only for an existing
\* file (tools.py 588-589)
EditLatexFile(c0, env, path, content) ==
  FileGated(IF c0.w.files[path] # Absent THEN Gate(c0, env, path)
            ELSE [c |-> c0, blocked |-> FALSE],
            env, path, content)

\* ------------------------------------------------- convert_overleaf_url_to_git
\* A URL is a sequence of tokens; no token but "/" contains a slash, so
\* "https://" is the three tokens of Https.
Https   == <<"https:", "/", "/">>
GitHost == "git.overleaf.com"
WebHost == "www.overleaf.com"

\* the tokens the character class [a-zA-Z0-9]+ matches
IsAlnum(t) == t \in {"project", "A", "B"}

\* f"https://git.overleaf.com/{project_id}"
GitAddress(project_id) == Https \o <<GitHost, "/">> \o project_id

RECURSIVE AlnumRun(_, _)
\* the longest run of alphanumeric tokens of u that starts at i
AlnumRun(u, i) ==
  IF i > Len(u) \/ ~IsAlnum(u[i]) THEN <<>>
  ELSE <<u[i]>> \o AlnumRun(u, i + 1)

RECURSIVE ProjectMatch(_, _)
\* re.search(r'/project/([a-zA-Z0-9]+)', u): the start of the leftmost match
\* at or after i, 0 when there is none
ProjectMatch(u, i) ==
  IF i + 3 > Len(u) THEN 0
  ELSE IF /\ u[i] = "/"
          /\ u[i + 1] = "project"
          /\ u[i + 2] = "/"
          /\ IsAlnum(u[i + 3])
    THEN i
  ELSE ProjectMatch(u, i + 1)

RECURSIVE RStripSlash(_)
\* u.rstrip('/')
RStripSlash(u) ==
  IF u # <<>> /\ u[Len(u)] = "/" THEN RStripSlash(SubSeq(u, 1, Len(u) - 1))
  ELSE u

RECURSIVE LastPart(_)
\* u.split('/')[-1]
LastPart(u) ==
  IF u = <<>> \/ u[Len(u)] = "/" THEN <<>>
  ELSE Append(LastPart(SubSeq(u, 1, Len(u) - 1)), u[Len(u)])

\* the address built from the capture group of the match at m
FromMatch(u, m) ==
  IF m # 0 THEN GitAddress(AlnumRun(u, m + 3))
  ELSE GitAddress(LastPart(RStripSlash(u)))

\* convert_overleaf_url_to_git without the early return for git addresses
convert_overleaf_url_to_git_NoPassThrough(overleaf_url) ==
  FromMatch(overleaf_url, ProjectMatch(overleaf_url, 1))

convert_overleaf_url_to_git(overleaf_url) ==
  IF \E i \in DOMAIN overleaf_url : overleaf_url[i] = GitHost
  THEN overleaf_url
  ELSE FromMatch(overleaf_url, ProjectMatch(overleaf_url, 1))

RECURSIVE Authenticated(_, _)
\* git_url.replace("https://", f"https://git:{token}@")
Authenticated(git_url, token) ==
  IF git_url = <<>> THEN <<>>
  ELSE IF Len(git_url) >= 3 /\ SubSeq(git_url, 1, 3) = Https
    THEN Https \o <<"git:", token, "@">>
         \o Authenticated(SubSeq(git_url, 4, Len(git_url)), token)
  ELSE <<git_url[1]>> \o Authenticated(Tail(git_url), token)

\* ------------------------------------------------- pull_overleaf_project
PullFirst == "main"
PullRetry == "master"

PullResult(ok, msg, path, pulled) ==
  [success |-> ok, message |-> msg, local_path |-> path,
   files_pulled |-> pulled]

PullFail(c, msg) == [c |-> c, res |-> PullResult(FALSE, msg, None, {})]

\* `git pull origin <cand>` exits 0
PullAccepted(w, o, cand) == o = "ok" /\ cand = w.branch

\* a successful pull: the remote's commits are merged (remote edits touch
\* files of the project other than the ones edited locally); a merge commit
\* is made when both sides have commits of their own
PullWorld(w) ==
  [w EXCEPT !.remoteOnly = 0, !.known = 0,
            !.localOnly = IF w.localOnly > 0 /\ w.remoteOnly > 0
                          THEN w.localOnly + 1 ELSE w.localOnly]

\* a successful clone into local_dir
CloneWorld(w, local_dir) ==
  [w EXCEPT !.gitDirs = w.gitDirs \cup {local_dir},
            !.dirs = w.dirs \cup {local_dir}
                     \cup {Parent(p) : p \in {q \in TreePaths :
                                                w.remote[q] # Absent}},
            !.files = [p \in AllPaths |->
                         IF p \in TreePaths THEN w.remote[p] ELSE w.files[p]],
            !.head = w.remote,
            !.localOnly = 0, !.remoteOnly = 0, !.known = 0]

Pulled(w) == {p \in TreePaths : w.files[p] # Absent}

PullDone(c, msg, local_dir) ==
  [c |-> c, res |-> PullResult(TRUE, msg, local_dir, Pulled(c.w))]

\* the pull of the second candidate ran (tools.py 738-756)
AfterPullRetry(c, o, local_dir) ==
  IF o = "timeout" THEN PullFail(c, <<"timed_out">>)
  ELSE IF PullAccepted(c.w, o, PullRetry)
    THEN PullDone([c EXCEPT !.w = PullWorld(c.w)], <<"pulled">>, local_dir)
  ELSE PullFail(c, <<"failed_to_pull">>)

\* AfterPullFirst that goes on to the second candidate whatever the first
\* pull did
AfterPullFirst_AlwaysRetry(c, env, o, local_dir) ==
  IF o = "timeout" THEN PullFail(c, <<"timed_out">>)
  ELSE AfterPullRetry(Step(c, <<"pull", PullRetry, Out(env, c.k)>>),
                      Out(env, c.k), local_dir)

\* the pull of the first candidate ran (tools.py 729-745)
AfterPullFirst(c, env, o, local_dir) ==
  IF o = "timeout" THEN PullFail(c, <<"timed_out">>)
  ELSE IF PullAccepted(c.w, o, PullFirst)
    THEN PullDone([c EXCEPT !.w = PullWorld(c.w)], <<"pulled">>, local_dir)
  ELSE AfterPullRetry(Step(c, <<"pull", PullRetry, Out(env, c.k)>>),
                      Out(env, c.k), local_dir)

\* the project the remote serves, the token it accepts and the address
\* `git clone` has to be given
ProjectId == <<"A">>
Token == "olp"
RemoteAddress == Authenticated(GitAddress(ProjectId), Token)

\* `git clone <address> <local_dir>` ran (tools.py 762-785); it refuses a
\* non-empty directory and an address that is not the project's
AfterClone(c, o, address, local_dir) ==
  IF o = "timeout" THEN PullFail(c, <<"timed_out">>)
  ELSE IF /\ o = "ok"
          /\ address = RemoteAddress
          /\ \A p \in TreePaths : c.w.files[p] = Absent
    THEN PullDone([c EXCEPT !.w = CloneWorld(c.w, local_dir)], <<"cloned">>,
                  local_dir)
  ELSE PullFail(c, <<"failed_to_clone">>)

\* the parent of the clone target was made (tools.py 759-762)
AfterCloneMkdir(c, env, o, address, local_dir) ==
  IF o # "ok" THEN PullFail(c, <<"error_pulling">>)
  ELSE AfterClone(Step(c, <<"clone", Out(env, c.k)>> \o address),
                  Out(env, c.k), address, local_dir)

\* the git URL is known (tools.py 712-791)
PullFrom(c0, env, git_url, local_dir) ==
  IF local_dir \in c0.w.gitDirs
  THEN AfterPullFirst(Step(c0, <<"pull", PullFirst, Out(env, c0.k)>>), env,
                      Out(env, c0.k), local_dir)
  ELSE AfterCloneMkdir(
         Step(c0, <<"mkdir", IF Out(env, c0.k) # "ok" THEN "raised"
                             ELSE "exists">>),
         env, Out(env, c0.k), Authenticated(git_url, Token), local_dir)

\* pull_overleaf_project(project_url, local_path, token); project_url is
\* None when neither the argument nor OVERLEAF_PROJECT_URL gives one
\* (tools.py 696-791)
PullOverleafProject(c0, env, project_url, local_dir) ==
  IF project_url = None THEN PullFail(c0, <<"no_project_url">>)
  ELSE PullFrom(c0, env, convert_overleaf_url_to_git(project_url), local_dir)

\* ------------------------------------------------- inputs of the tool calls
TA == <<"a">>
TB == <<"b">>
GateContents == {TB}
NoArgs == [new |-> <<>>, pattern |-> NoPattern, s |-> NoLine, e |-> NoLine,
           regex |-> FALSE, url |-> None]
Args(new, pattern, s, e, regex) ==
  [new |-> new, pattern |-> pattern, s |-> s, e |-> e, regex |-> regex,
   url |-> None]
UrlArgs(url) == [NoArgs EXCEPT !.url = url]
ProjectUrl == Https \o <<WebHost, "/", "project", "/">> \o ProjectId
GitUrl     == GitAddress(ProjectId)
OtherUrl   == Https \o <<WebHost, "/", "project", "/", "B">>
PullUrls   == {None, ProjectUrl, GitUrl, OtherUrl}
GateModes ==
  {Args(TB, <<"a">>, NoLine, NoLine, FALSE),
   Args(TB, <<"a">>, NoLine, NoLine, TRUE),
   Args(TB, NoPattern, 1, 1, FALSE),
   Args(TB, NoPattern, 2, 2, FALSE),
   Args(TB, NoPattern, NoLine, NoLine, FALSE)}
GateRanges == {<<1, 1>>, <<2, 2>>}

\* ------------------------------------------------- tool calls
Call(op, path, a) == [op |-> op, path |-> path, args |-> a]

\* the tool named by a call, run in context c under fault plan env
Exec(call, c, env) ==
  CASE call.op = "check_sync_status" -> CheckSyncStatus(c, env, call.path)
    [] call.op = "push_to_overleaf" -> PushToOverleaf(c, env, call.path)
    [] call.op = "pull_overleaf_project" ->
         PullOverleafProject(c, env, call.args.url, call.path)
    [] call.op = "read_text" ->
         ReadText(c, env, call.path, call.args.pattern, call.args.s,
                  call.args.e, call.args.regex)
    [] call.op = "write_text" ->
         WriteText(c, env, call.path, call.args.new, call.args.pattern,
                   call.args.s, call.args.e, call.args.regex)
    [] call.op = "edit_latex_selection" ->
         EditLatexSelection(c, env, call.path, call.args.s, call.args.e,
                            call.args.new)
    [] call.op = "edit_latex_file" ->
         EditLatexFile(c, env, call.path, call.args.new)

LastFault(env) ==
  IF env = {} THEN 0
  ELSE CHOOSE i \in {f[1] : f \in env} : \A f \in env : f[1] <= i

RECURSIVE Grow(_, _, _, _)
\* r is the outcome under env: with it go the outcomes under the plans that
\* put one more fault at an external call the tool really made after the
\* last fault of env (a fault at a later position changes nothing before it)
GrowFrom(call, w, env, n, r) ==
  {r} \cup
  (IF n = 0 THEN {}
   ELSE UNION {Grow(call, w, env \cup {<<i, f>>}, n - 1) :
                 i \in (LastFault(env) + 1)..(r.c.k - 1), f \in FaultKinds})

\* the outcomes of a call under the fault plans that extend env by at most n
\* faults
Grow(call, w, env, n) ==
  GrowFrom(call, w, env, n, Exec(call, Ctx(w, 1, <<>>), env))

\* every outcome the environment can give a call made in world w
Outcomes(call, w) == Grow(call, w, {}, MaxFaults)

\* ------------------------------------------------- the state machine
Idle == [op |-> "idle", path |-> None, args |-> NoArgs,
         res |-> ToolResult(TRUE, <<>>), log |-> <<>>]

\* the project exists at the remote; locally it is either cloned already or
\* not there yet
Init ==
  /\ branch \in {"main", "master"}
  /\ remote = [p \in TreePaths |-> IF p = F1 THEN TA ELSE Absent]
  /\ \/ /\ gitDirs = {Proj}
        /\ dirs = {Proj, Tmp}
        /\ files = [p \in AllPaths |-> IF p = F2 THEN Absent ELSE TA]
     \/ /\ gitDirs = {}
        /\ dirs = {Tmp}
        /\ files = [p \in AllPaths |-> IF p = F3 THEN TA ELSE Absent]
  /\ head = remote
  /\ localOnly = 0
  /\ remoteOnly = 0
  /\ known = 0
  /\ last = Idle

\* a tool call runs to its end: the world it leaves and the record of the call
Run(call) ==
  /\ last.op = "idle"
  /\ \E r \in Outcomes(call, World) :
          /\ r.c.w.localOnly <= MaxCommits
          /\ \A p \in AllPaths : Len(r.c.w.files[p]) <= MaxTextLen
          /\ files' = r.c.w.files
          /\ dirs' = r.c.w.dirs
          /\ gitDirs' = r.c.w.gitDirs
          /\ head' = r.c.w.head
          /\ remote' = r.c.w.remote
          /\ localOnly' = r.c.w.localOnly
          /\ remoteOnly' = r.c.w.remoteOnly
          /\ known' = r.c.w.known
          /\ branch' = r.c.w.branch
          /\ last' = [op |-> call.op, path |-> call.path, args |-> call.args,
                      res |-> r.res, log |-> r.c.log]

CheckSyncStatusCall ==
  \E repo \in {Proj, Tmp} : Run(Call("check_sync_status", repo, NoArgs))

PushToOverleafCall ==
  \E repo \in {Proj, Tmp} : Run(Call("push_to_overleaf", repo, NoArgs))

PullOverleafProjectCall ==
  \E url \in PullUrls : Run(Call("pull_overleaf_project", Proj, UrlArgs(url)))

WriteTextCall ==
  \E path \in TreePaths, a \in GateModes : Run(Call("write_text", path, a))

EditLatexSelectionCall ==
  \E path \in TreePaths, new \in GateContents, r \in GateRanges :
    Run(Call("edit_latex_selection", path,
             Args(new, NoPattern, r[1], r[2], FALSE)))

EditLatexFileCall ==
  \E path \in TreePaths, content \in GateContents :
    Run(Call("edit_latex_file", path,
             Args(content, NoPattern, NoLine, NoLine, FALSE)))

\* the calls whose interruption is followed
CrashCalls ==
  {Call("write_text", path, a) : path \in TreePaths, a \in GateModes}
  \cup {Call("edit_latex_file", path,
             Args(content, NoPattern, NoLine, NoLine, FALSE)) :
          path \in TreePaths, content \in GateContents}

\* the process dies in a mutating call right after file.write_text returned
\* and before the publish sequence starts (tools.py 343-349, 620-628): what
\* the call did up to its i-th external call, the write, stays
Interrupted(call, r, i) ==
  /\ r.c.log[i][1] = "write"
  /\ r.c.log[i][2] = "ok"
  /\ Len(r.c.log[i]) - 2 <= MaxTextLen
  /\ files' = [files EXCEPT ![call.path] = SubSeq(r.c.log[i], 3,
                                                  Len(r.c.log[i]))]
  /\ dirs' = r.c.w.dirs
  /\ known' = r.c.w.known
  /\ last' = [op |-> "crashed", path |-> call.path, args |-> call.args,
              res |-> ToolResult(FALSE, <<"crashed">>),
              log |-> SubSeq(r.c.log, 1, i)]
  /\ UNCHANGED <<gitDirs, head, remote, localOnly, remoteOnly, branch>>

CrashAfterWrite ==
  /\ last.op = "idle"
  /\ \E call \in CrashCalls :
       \E r \in Outcomes(call, World) :
         \E i \in DOMAIN r.c.log : Interrupted(call, r, i)

\* the transport returns the result to the client; the server takes one
\* request at a time
Respond ==
  /\ last.op # "idle"
  /\ last' = Idle
  /\ UNCHANGED <<files, dirs, gitDirs, head, remote, localOnly, remoteOnly,
                 known, branch>>

\* somebody edits the project in the cloud editor: one more remote commit
RemoteEdit ==
  /\ last.op = "idle"
  /\ remoteOnly < MaxRemote
  /\ remoteOnly' = remoteOnly + 1
  /\ UNCHANGED <<files, dirs, gitDirs, head, remote, localOnly, known, branch,
                 last>>

Next ==
  \/ CheckSyncStatusCall
  \/ PushToOverleafCall
  \/ PullOverleafProjectCall
  \/ WriteTextCall
  \/ EditLatexSelectionCall
  \/ EditLatexFileCall
  \/ Respond
  \/ RemoteEdit
  \/ CrashAfterWrite

Spec == Init /\ [][Next]_vars

\* ------------------------------------------------- the text operations
\* The text tools applied to the file outside every working tree, over all
\* short texts.
TextChars == {"a", "b", NL}
PatChars  == {"a", "b", "."}

SeqsUpTo(S, n) == UNION {[1..k -> S] : k \in 0..n}

FileTexts == SeqsUpTo(TextChars, MaxTextLen)
NewTexts  == SeqsUpTo(TextChars, MaxNewLen)
Patterns  == SeqsUpTo(PatChars, MaxNewLen) \ {<<>>}
LineArgs  == 0..MaxTextLen

TextInit ==
  /\ branch = "master"
  /\ remote = [p \in TreePaths |-> IF p = F1 THEN TA ELSE Absent]
  /\ gitDirs = {Proj}
  /\ dirs = {Proj, Tmp}
  /\ \E t \in FileTexts :
       files = [p \in AllPaths |->
                  IF p = F2 THEN Absent ELSE IF p = F1 THEN TA ELSE t]
  /\ head = remote
  /\ localOnly = 0
  /\ remoteOnly = 0
  /\ known = 0
  /\ last = Idle

TextModes ==
  {Args(new, NoPattern, s, e, FALSE) :
     new \in NewTexts, s \in LineArgs, e \in LineArgs}
  \cup {Args(new, pat, NoLine, NoLine, rx) :
          new \in NewTexts, pat \in Patterns, rx \in BOOLEAN}
  \cup {Args(new, NoPattern, NoLine, 1, FALSE) : new \in NewTexts}

TextReadCall == \E a \in TextModes : Run(Call("read_text", F3, a))

TextWriteCall == \E a \in TextModes : Run(Call("write_text", F3, a))

TextEditSelectionCall ==
  \E new \in NewTexts, s \in LineArgs, e \in LineArgs :
    Run(Call("edit_latex_selection", F3, Args(new, NoPattern, s, e, FALSE)))

TextEditFileCall ==
  \E content \in NewTexts :
    Run(Call("edit_latex_file", F3,
             Args(content, NoPattern, NoLine, NoLine, FALSE)))

TextNext ==
  \/ TextReadCall
  \/ TextWriteCall
  \/ TextEditSelectionCall
  \/ TextEditFileCall
  \/ Respond

TextSpec == TextInit /\ [][TextNext]_vars

\* ------------------------------------------------- the URL conversion
\* convert_overleaf_url_to_git applied to every URL made of no host, the web
\* host or the git host, followed by a short path.
TailTokens == {"/", "project", "A", "-"}
UrlHeads == {<<>>, Https \o <<WebHost>>, Https \o <<GitHost>>}
Urls == {h \o t : h \in UrlHeads, t \in SeqsUpTo(TailTokens, MaxUrlTail)}

UrlInit ==
  /\ branch = "master"
  /\ remote = [p \in TreePaths |-> IF p = F1 THEN TA ELSE Absent]
  /\ gitDirs = {}
  /\ dirs = {Tmp}
  /\ files = [p \in AllPaths |-> IF p = F3 THEN TA ELSE Absent]
  /\ head = remote
  /\ localOnly = 0
  /\ remoteOnly = 0
  /\ known = 0
  /\ last = Idle

\* a call of the helper: the record of the call holds the address returned
ConvertCall ==
  /\ last.op = "idle"
  /\ \E url \in Urls :
       last' = [op |-> "convert_overleaf_url_to_git", path |-> None,
                args |-> UrlArgs(url),
                res |-> convert_overleaf_url_to_git(url), log |-> <<>>]
  /\ UNCHANGED <<files, dirs, gitDirs, head, remote, localOnly, remoteOnly,
                 known, branch>>

\* pull_overleaf_project of a URL into the directory that is not a tree yet
UrlPullCall ==
  \E url \in Urls : Run(Call("pull_overleaf_project", Proj, UrlArgs(url)))

UrlNext ==
  \/ ConvertCall
  \/ UrlPullCall
  \/ Respond

UrlSpec == UrlInit /\ [][UrlNext]_vars

\* ------------------------------------------------- reading the last call
MutatingOps == {"write_text", "edit_latex_selection", "edit_latex_file"}
Mutating == last.op \in MutatingOps
Entries(kind) == {i \in DOMAIN last.log : last.log[i][1] = kind}
LogHas(ev) == \E i \in DOMAIN last.log : last.log[i] = ev
Faulted(ev) == \E j \in DOMAIN ev : ev[j] \in {"fail", "timeout", "raised"}
FaultFree == \A i \in DOMAIN last.log : ~Faulted(last.log[i])
GoodWrites == {i \in Entries("write") : last.log[i][2] = "ok"}
Wrote == GoodWrites # {}
LastWritten ==
  LET i == CHOOSE k \in GoodWrites : \A j \in GoodWrites : j <= k
  IN SubSeq(last.log[i], 3, Len(last.log[i]))
Published == Entries("add") \cup Entries("commit") \cup Entries("push")
Refused == "sync_blocked" \in Range(last.res.message)
Enclosed(p) == \E d \in Ancestors(Parent(p)) : d \in gitDirs
\* what check_sync_status answers in world w when every command works
Answer(w) == CheckSyncStatus(Ctx(w, 1, <<>>), {}, Proj).res

\* C1: a mutating operation on a path of a working tree whose sync check
\* succeeds with a warning is refused and writes nothing, creates no
\* directory and publishes nothing, also when the target file does not exist
\* yet.  The sync check is the one the call made or, with every command
\* working, the one a call of check_sync_status makes in the state the
\* operation starts from.
C1_BlockedOnWarning ==
  [][(/\ last.op = "idle"
      /\ last'.op \in MutatingOps
      /\ Enclosed(last'.path)
      /\ \/ \E i \in DOMAIN last'.log : last'.log[i] = <<"check", "warn">>
         \/ /\ \A i \in DOMAIN last'.log : ~Faulted(last'.log[i])
            /\ Answer(World).success
            /\ Answer(World).warnings # <<>>)
     => (/\ ~last'.res.success
         /\ "sync_blocked" \in Range(last'.res.message)
         /\ files' = files
         /\ dirs' = dirs
         /\ \A i \in DOMAIN last'.log :
              last'.log[i][1] \notin {"write", "mkdir", "add", "commit",
                                      "push"})]_vars

\* C2: the gate is fail-open.  A mutating operation is refused only when a
\* sync check of the call succeeded with warnings; when a check of the call
\* returned success=false and none reported a warning, the operation goes on
\* to the mutation and is not refused.
C2_FailOpen ==
  Mutating =>
    /\ Refused => LogHas(<<"check", "warn">>)
    /\ (LogHas(<<"check", "fail">>) /\ ~LogHas(<<"check", "warn">>))
         => (LogHas(<<"mutate">>) /\ ~Refused)

C2_Witness ==
  /\ Mutating
  /\ LogHas(<<"check", "fail">>)
  /\ Wrote
  /\ last.res.success

\* C3: when the mutation succeeded and the publish (whose commit steps all
\* ran) did not bring the written content to the remote, the result has
\* success=true, the file keeps the written content and the message carries
\* the "but push failed" suffix; edit_latex_selection with a failed push in
\* its nested write_text is one such call.
C3_PushFailureReported ==
  (/\ Mutating
   /\ last.path \in TreePaths
   /\ Enclosed(last.path)
   /\ Wrote
   /\ \A i \in Entries("commit") : ~Faulted(last.log[i])
   /\ remote[last.path] # LastWritten)
  => (/\ last.res.success
      /\ files[last.path] = LastWritten
      /\ "but_push_failed" \in Range(last.res.message))

\* C4: a mutating operation on a path without an enclosing working tree
\* never calls check_sync_status, is never refused, runs no step of the
\* publish sequence and goes straight to the mutation.
C4_NoTreeNoGate ==
  (Mutating /\ ~Enclosed(last.path)) =>
    /\ Entries("check") = {}
    /\ ~Refused
    /\ Published = {}
    /\ LogHas(<<"mutate">>)

C4_Witness ==
  /\ Mutating
  /\ ~Enclosed(last.path)
  /\ Wrote
  /\ last.res.success

\* C5: when the mutation did not succeed (no file was written) no step of the
\* publish sequence ran in the call and the result has success=false.
C5_NoPublishWithoutWrite ==
  (Mutating /\ ~Wrote) => (Published = {} /\ ~last.res.success)

C5_Witness ==
  /\ Mutating
  /\ Enclosed(last.path)
  /\ LogHas(<<"mutate">>)
  /\ ~Wrote
  /\ ~last.res.success

Consistent(r) ==
  /\ r.is_synced <=> (r.warnings = <<>>)
  /\ r.is_synced <=> (/\ ~r.has_uncommitted
                      /\ r.local_commits_ahead = 0
                      /\ r.remote_commits_ahead = 0)
  /\ r.local_ahead <=> (r.local_commits_ahead > 0)
  /\ r.remote_ahead <=> (r.remote_commits_ahead > 0)

\* C6 as claimed: every result of check_sync_status has is_synced iff
\* warnings is empty iff nothing is uncommitted and both counts are zero.
C6_EveryResultConsistent ==
  last.op = "check_sync_status" => Consistent(last.res)

\* C6 amended: every result of check_sync_status with success=true has
\* is_synced iff warnings is empty iff nothing is uncommitted and both counts
\* are zero, with local_ahead iff local_commits_ahead > 0 and remote_ahead
\* iff remote_commits_ahead > 0.
C6_VerdictConsistent ==
  (last.op = "check_sync_status" /\ last.res.success) => Consistent(last.res)

C6_Witness ==
  /\ last.op = "check_sync_status"
  /\ last.res.success
  /\ ~last.res.is_synced
  /\ last.res.has_uncommitted
  /\ last.res.local_commits_ahead = 0

SuggestionFor(w) ==
  CASE w.kind = "uncommitted" -> "commit"
    [] w.kind = "remote_ahead" -> "pull_overleaf_project"
    [] w.kind = "local_ahead" -> "push_to_overleaf"

WarningRank(w) ==
  CASE w.kind = "uncommitted" -> 1
    [] w.kind = "remote_ahead" -> 2
    [] w.kind = "local_ahead" -> 3

\* C7: in every result of check_sync_status warnings and suggestions have the
\* same length, the i-th suggestion is the one of the i-th warning, and the
\* warnings come in the order uncommitted, remote ahead, local ahead.
C7_WarningsPaired ==
  last.op = "check_sync_status" =>
    LET ws == last.res.warnings
        ss == last.res.suggestions
    IN /\ Len(ws) = Len(ss)
       /\ \A i \in DOMAIN ws : ss[i] = SuggestionFor(ws[i])
       /\ \A i, j \in DOMAIN ws :
            i < j => WarningRank(ws[i]) < WarningRank(ws[j])

C7_Witness ==
  /\ last.op = "check_sync_status"
  /\ Len(last.res.warnings) >= 2
  /\ last.res.warnings[1].kind = "uncommitted"

\* C8: for a clean working tree whose head is N > 0 commits ahead of the
\* remote's default branch (main or master) and not behind it,
\* check_sync_status (every command working) returns success with
\* local_ahead, local_commits_ahead = N, no remote_ahead and is_synced false.
C8_LocalAheadReported ==
  (/\ last.op = "check_sync_status"
   /\ last.path = Proj
   /\ FaultFree
   /\ ~Dirty(World)
   /\ localOnly > 0
   /\ remoteOnly = 0)
  => (/\ last.res.success
      /\ last.res.local_ahead
      /\ last.res.local_commits_ahead = localOnly
      /\ ~last.res.remote_ahead
      /\ last.res.remote_commits_ahead = 0
      /\ ~last.res.is_synced)

\* the content with only the leftmost match of pat replaced by new
OnlyFirstReplaced(content, pat, new, regex) ==
  LET i == FindFrom(content, pat, 1, regex)
  IN SubSeq(content, 1, i - 1) \o new
     \o SubSeq(content, i + Len(pat), Len(content))

\* C9: write_text in pattern mode replaces only the first occurrence of the
\* pattern and leaves every later occurrence and all other text unchanged,
\* with use_regex=false and with use_regex=true.
C9_FirstOccurrenceOnly ==
  [][(/\ last.op = "idle"
      /\ last'.op = "write_text"
      /\ last'.args.pattern # NoPattern
      /\ last'.res.success)
     => files'[last'.path] =
          OnlyFirstReplaced(files[last'.path], last'.args.pattern,
                            last'.args.new, last'.args.regex)]_vars

\* C10: a successful line-range write_text(start_line=s, end_line=e) on a
\* file of n lines leaves lines 1..s-1 and e+1..n unchanged and in order:
\* they are the first s-1 and the last n-e lines of the result.
C10_LinesOutsideRangeKept ==
  [][(/\ last.op = "idle"
      /\ last'.op = "write_text"
      /\ last'.args.pattern = NoPattern
      /\ last'.res.success)
     => LET old == SplitLines(files[last'.path])
            now == SplitLines(files'[last'.path])
            n == Len(old)
            s == last'.args.s
            e == last'.args.e
        IN /\ Len(now) >= (s - 1) + (n - e)
           /\ SubSeq(now, 1, s - 1) = SubSeq(old, 1, s - 1)
           /\ SubSeq(now, Len(now) - (n - e) + 1, Len(now))
                = SubSeq(old, e + 1, n)]_vars

\* what read_text answers for lines s..e of path in the current state when
\* the read works
ReadBack(path, s, e) ==
  ReadText(Ctx(World, 1, <<>>), {}, path, NoPattern, s, e, FALSE).res

\* C11: after a successful line-range write_text(file, new_content, s, e),
\* read_text(file, s, e) succeeds and returns exactly new_content, whatever
\* new_content is (fewer or more lines than e-s+1, empty, ending in a
\* newline).
C11_RoundTrip ==
  (/\ last.op = "write_text"
   /\ last.args.pattern = NoPattern
   /\ last.res.success)
  => (/\ ReadBack(last.path, last.args.s, last.args.e).success
      /\ ReadBack(last.path, last.args.s, last.args.e).text = last.args.new)

\* the call the step makes is a line-range read_text or write_text of an
\* existing file whose content was read
LineModeCall ==
  /\ last.op = "idle"
  /\ last'.op \in {"read_text", "write_text"}
  /\ last'.args.pattern = NoPattern
  /\ last'.args.s # NoLine
  /\ last'.args.e # NoLine
  /\ files[last'.path] # Absent
  /\ \E i \in DOMAIN last'.log : last'.log[i] = <<"read", "ok">>

\* the range s..e violates 1 <= s <= e <= number of lines of text
BadRange(text, s, e) == ~(1 <= s /\ s <= e /\ e <= Len(SplitLines(text)))

\* C12: a line-range read_text or write_text answers "invalid line range"
\* exactly when 1 <= start_line <= end_line <= lineCount is violated; the
\* answer is then a failure result, read_text returns no text and write_text
\* leaves the file as it was.
C12_InvalidRangeReported ==
  [][LineModeCall =>
       /\ ("invalid_line_range" \in Range(last'.res.message))
            <=> BadRange(files[last'.path], last'.args.s, last'.args.e)
       /\ BadRange(files[last'.path], last'.args.s, last'.args.e) =>
            /\ ~last'.res.success
            /\ files' = files
            /\ last'.op = "read_text" => last'.res.text = <<>>]_vars

C12_Witness ==
  /\ last.op = "write_text"
  /\ last.args.pattern = NoPattern
  /\ 1 <= last.args.s
  /\ last.args.s <= last.args.e
  /\ last.args.e > Len(SplitLines(files[last.path]))
  /\ "invalid_line_range" \in Range(last.res.message)
  /\ ~last.res.success

\* the step is a call of pull_overleaf_project with a project URL
PullCall ==
  /\ last.op = "idle"
  /\ last'.op = "pull_overleaf_project"
  /\ last'.args.url # None

\* the i-th external call of the step was a `git pull` that exited non-zero
PullExitedNonZero(i) ==
  \/ last'.log[i][3] = "fail"
  \/ last'.log[i][3] = "ok" /\ last'.log[i][2] # branch

\* C13: pull_overleaf_project never consults check_sync_status and is never
\* refused, whatever the divergence of the local tree.  When the local path
\* has the marker directory it pulls from "main" and, only when that exits
\* non-zero, from "master", and succeeds iff one of the two exits 0.
\* Otherwise it makes the parent directory and clones from the git address
\* of the project URL with the credentials embedded.
C13_PullNotGated ==
  [][PullCall =>
       /\ \A i \in DOMAIN last'.log :
            last'.log[i][1] \notin {"check", "status", "fetch", "rev-list"}
       /\ "sync_blocked" \notin Range(last'.res.message)
       /\ last'.log # <<>>
       /\ last'.path \in gitDirs =>
            /\ \A i \in DOMAIN last'.log : last'.log[i][1] = "pull"
            /\ last'.log[1][2] = "main"
            /\ Len(last'.log) <= 2
            /\ Len(last'.log) = 2 <=> PullExitedNonZero(1)
            /\ Len(last'.log) = 2 => last'.log[2][2] = "master"
            /\ last'.res.success <=>
                 \E i \in DOMAIN last'.log :
                   last'.log[i][3] = "ok" /\ last'.log[i][2] = branch
       /\ last'.path \notin gitDirs =>
            /\ \A i \in DOMAIN last'.log : last'.log[i][1] # "pull"
            /\ last'.log[1][1] = "mkdir"
            /\ last'.log[1][2] # "raised" =>
                 /\ Len(last'.log) = 2
                 /\ last'.log[2][1] = "clone"
                 /\ SubSeq(last'.log[2], 3, Len(last'.log[2]))
                      = Https \o <<"git:", Token, "@">>
                        \o SubSeq(convert_overleaf_url_to_git(last'.args.url),
                                  4, Len(convert_overleaf_url_to_git(
                                           last'.args.url)))]_vars

C13_Witness ==
  /\ last.op = "pull_overleaf_project"
  /\ last.res.success
  /\ Len(last.log) = 2
  /\ last.log[2] = <<"pull", "master", "ok">>
  /\ Dirty(World)
  /\ localOnly > 0

\* the project identifiers: the non-empty runs of alphanumeric tokens
ProjectIds == SeqsUpTo({"project", "A"}, MaxUrlTail) \ {<<>>}

\* u is a project URL .../project/<id>, relative or on the web host
IsProjectUrl(u, id) ==
  \E h \in {<<>>, Https \o <<WebHost>>} : u = h \o <<"/", "project", "/">> \o id

\* C14: convert_overleaf_url_to_git maps a project URL .../project/<id> to
\* https://git.overleaf.com/<id>, returns an address that already has that
\* form unchanged, and converting its result again changes nothing.
C14_ConvertCanonical ==
  last.op = "convert_overleaf_url_to_git" =>
    /\ convert_overleaf_url_to_git(last.res) = last.res
    /\ \A id \in ProjectIds :
         /\ IsProjectUrl(last.args.url, id) => last.res = GitAddress(id)
         /\ last.args.url = GitAddress(id) => last.res = last.args.url

C14_Witness ==
  /\ last.op = "convert_overleaf_url_to_git"
  /\ last.args.url = ProjectUrl
  /\ last.res = Https \o <<"git.overleaf.com", "/", "A">>

\* the step is a call of push_to_overleaf on the tree in which every command
\* works, made with a clean tree whose head is ahead of a remote that is not
\* itself ahead
PushOfPendingCommits ==
  /\ last.op = "idle"
  /\ last'.op = "push_to_overleaf"
  /\ last'.path = Proj
  /\ Proj \in gitDirs
  /\ \A i \in DOMAIN last'.log : ~Faulted(last'.log[i])
  /\ ~Dirty(World)
  /\ localOnly > 0
  /\ remoteOnly = 0

\* C15: from a clean tree whose head is ahead of the reachable remote, which
\* is not ahead, push_to_overleaf pushes the pending commits: afterwards the
\* head is not ahead, the remote has the head's content and check_sync_status
\* gives no warning, so that mutating operations are not refused.
C15_PushRecovers ==
  [][PushOfPendingCommits =>
       /\ localOnly' = 0
       /\ remote' = head'
       /\ ~Answer(World').local_ahead
       /\ Answer(World').warnings = <<>>]_vars

\* C16: in check_sync_status a count query that exits non-zero is retried
\* once against the other candidate of the pair main/master: two queries of
\* the same axis never name the same candidate, and there are at most two.
C16_RetryOtherCandidate ==
  last.op = "check_sync_status" =>
    \A i, j \in Entries("rev-list") :
      (i < j /\ last.log[i][2] = last.log[j][2]) =>
        /\ {last.log[i][3], last.log[j][3]} = {"main", "master"}
        /\ \A k \in Entries("rev-list") :
             last.log[k][2] = last.log[i][2] => k \in {i, j}

\* C17: a `git fetch origin` that exits non-zero or times out does not end
\* check_sync_status: when neither the status query nor a count query timed
\* out, the count queries ran and the result is a success=true verdict.
C17_FetchFailureNotFatal ==
  (/\ last.op = "check_sync_status"
   /\ \E i \in Entries("fetch") : Faulted(last.log[i])
   /\ \A i \in Entries("status") \cup Entries("rev-list") :
        "timeout" \notin Range(last.log[i]))
  => (/\ last.res.success
      /\ Entries("rev-list") # {})

\* the step is a call of push_to_overleaf on the working tree
PushCall ==
  /\ last.op = "idle"
  /\ last'.op = "push_to_overleaf"
  /\ last'.path \in gitDirs

\* the commit step of the call reported that there is nothing to commit
NothingToCommitReported ==
  /\ Len(last'.log) >= 2
  /\ last'.log[2] = <<"commit", "ok">>
  /\ ~Dirty(World)

\* the i-th external call of the step was a `git push` that exited 0
PushExitedZero(i) ==
  /\ last'.log[i][1] = "push"
  /\ PushAccepted(World, last'.log[i][3], last'.log[i][2])

\* C18: push_to_overleaf runs stage-all, commit, push to "main" in this
\* order and the push to "master" only after the push to "main" exited
\* non-zero; a failed stage step stops it before the commit; a commit that
\* reports nothing to commit ends it with success=true and without a push;
\* the result has success=true iff nothing to commit was reported or one of
\* the two pushes exited 0.
C18_PushSequence ==
  [][PushCall =>
       /\ Len(last'.log) \in 1..4
       /\ last'.log[1][1] = "add"
       /\ Len(last'.log) >= 2 <=> last'.log[1][2] = "ok"
       /\ Len(last'.log) >= 2 => last'.log[2][1] = "commit"
       /\ Len(last'.log) >= 3 =>
            /\ last'.log[3][1] = "push"
            /\ last'.log[3][2] = "main"
            /\ ~NothingToCommitReported
       /\ Len(last'.log) = 4 =>
            /\ last'.log[4][1] = "push"
            /\ last'.log[4][2] = "master"
            /\ last'.log[3][3] # "timeout"
            /\ ~PushExitedZero(3)
       /\ NothingToCommitReported =>
            (last'.res.success /\ Len(last'.log) = 2)
       /\ last'.res.success <=>
            \/ NothingToCommitReported
            \/ \E i \in DOMAIN last'.log : PushExitedZero(i)]_vars

C18_Witness ==
  /\ last.op = "push_to_overleaf"
  /\ Len(last.log) = 4
  /\ last.log[3] = <<"push", "main", "ok">>
  /\ last.log[4] = <<"push", "master", "ok">>
  /\ last.res.success
  /\ localOnly = 0

\* a mutating call on a path of the working tree was interrupted after its
\* write and left the file different from the head commit
CrashedWithEdit ==
  /\ last.op = "crashed"
  /\ Enclosed(last.path)
  /\ files[last.path] # head[last.path]

\* C19 as claimed: after a crash between the file write and the publish
\* sequence the next check_sync_status on the tree reports the unpublished
\* edit as local ahead: local_ahead is true and local_commits_ahead > 0.
C19_CrashSurfacedAsLocalAhead ==
  CrashedWithEdit =>
    /\ Answer(World).success
    /\ Answer(World).local_ahead
    /\ Answer(World).local_commits_ahead > 0

\* C19 amended: after a crash between the file write and the publish
\* sequence the next check_sync_status on the tree reports the unpublished
\* edit as uncommitted local changes: has_uncommitted is true, the
\* uncommitted warning is given and is_synced is false.
C19_CrashSurfacedAsUncommitted ==
  CrashedWithEdit =>
    /\ Answer(World).success
    /\ Answer(World).has_uncommitted
    /\ ~Answer(World).is_synced
    /\ Answer(World).warnings # <<>>
    /\ Answer(World).warnings[1] = WarnUncommitted

C19_Witness ==
  /\ CrashedWithEdit
  /\ Answer(World).has_uncommitted
  /\ ~Answer(World).local_ahead
  /\ Answer(World).local_commits_ahead = 0

\* C20: push_to_overleaf reports a successful push only when the changes of
\* the working tree were committed and the commit reached the remote: after
\* a result with the "pushed" message the tree is clean and the remote has
\* the content of the working files, also when the commit step exited
\* non-zero.
C20_PushedMeansPublished ==
  (/\ last.op = "push_to_overleaf"
   /\ last.res.success
   /\ \/ "pushed" \in Range(last.res.message)
      \/ "pushed_master" \in Range(last.res.message))
  => (/\ ~Dirty(World)
      /\ \A p \in TreePaths : remote[p] = files[p])

====
